---- MODULE Spec2Model ----
(***************************************************************************)
(* Model of src/app.py: the Flask backend of the TeleCIMENTO evaluation    *)
(* system.  The state is the SQLite store (tables avaliacoes,              *)
(* controle_votacao, logs_sistema), the server clock, and the position of  *)
(* each worker thread (app.run(threaded=True)) inside the handler it is    *)
(* executing.  Every SQL statement of a handler is one step; a connection  *)
(* that is closed without commit() rolls its pending writes back.          *)
(*                                                                         *)
(* Time is counted in hours since an arbitrary UTC midnight.  A datetime   *)
(* is a record [wall, off]: the wall-clock hour count it displays and its  *)
(* UTC offset; its instant is wall - off.  An ISO-8601 text is a record    *)
(* [wall, suffix]: the wall-clock part and the offset designator.          *)
(***************************************************************************)
EXTENDS Integers, Sequences, FiniteSets, TLC

VARIABLES
    now,               \* server clock: the current instant (UTC hours)
    avaliacoes,        \* committed table avaliacoes: id -> row
    controle_votacao,  \* committed table controle_votacao: dispositivo_id -> row
    logs_sistema,      \* committed table logs_sistema: sequence of rows
    lock,              \* the connection holding SQLite's write lock
    op,                \* per worker: the endpoint it is serving
    pc,                \* per worker: the statement it executes next
    data,              \* per worker: the JSON payload / path parameter
    tx,                \* per worker: uncommitted writes of its open connection
    resp,              \* per worker: the HTTP response it produced
    errs,              \* per worker: the logger.error calls of this request
    pre                \* per worker: the committed tables when the request arrived

vars == <<now, avaliacoes, controle_votacao, logs_sistema, lock, op, pc,
          data, tx, resp, errs, pre>>

----------------------------------------------------------------------------
(* Bounds of the model *)

MaxTicks == 1      \* hours the clock may advance
MaxResets == 1     \* logged resets after which no further reset is requested

(* Calendar *)

HoursPerDay == 24
UtcOffset == -3    \* America/Sao_Paulo

Workers == {"w1", "w2"}
DeviceSeq == <<"d1", "d2">>
Devices == {DeviceSeq[i] : i \in 1..Len(DeviceSeq)}
IdSeq == <<"a1", "a2">>
Ids == {IdSeq[i] : i \in 1..Len(IdSeq)}
NoWorker == "none"

\* The first instant of the model: 02:00 UTC of day 2, which is 23:00 of
\* day 1 in Sao Paulo.
StartTime == 2 * HoursPerDay + 2

----------------------------------------------------------------------------
(* Dates and ISO-8601 texts *)

\* get_brazil_time(): datetime.now(TIMEZONE)
get_brazil_time(t) == [wall |-> t + UtcOffset, off |-> UtcOffset]

\* datetime.date(): the calendar day of the wall-clock fields
DateOf(dt) == dt.wall \div HoursPerDay

\* datetime.isoformat() of an aware datetime in Sao Paulo
IsoFormat(dt) == [wall |-> dt.wall, suffix |-> "-03:00"]

\* str.replace('Z', '+00:00')
ReplaceZ(s) == IF s.suffix = "Z" THEN [s EXCEPT !.suffix = "+00:00"] ELSE s

\* datetime.fromisoformat accepts these offset designators
IsoParseable(s) == s.suffix \in {"+00:00", "-03:00"}

\* datetime.fromisoformat
FromIsoFormat(s) ==
    [wall |-> s.wall, off |-> IF s.suffix = "-03:00" THEN UtcOffset ELSE 0]

is_same_day(date1, date2) == DateOf(date1) = DateOf(date2)

\* The timestamp texts a client clock produces for instant t:
\* JavaScript's toISOString ("Z"), an ISO text with the local offset, and a
\* text that is no ISO-8601 date.
ClientStamp(kind, t) ==
    CASE kind = "Z" -> [wall |-> t, suffix |-> "Z"]
      [] kind = "local" -> [wall |-> t + UtcOffset, suffix |-> "-03:00"]
      [] OTHER -> [wall |-> t, suffix |-> "?"]

StampKinds == {"Z", "local", "bad"}

----------------------------------------------------------------------------
(* The store *)

EmptyTable == [k \in {} |-> 0]

Row1(k, v) == [x \in {k} |-> v]

\* f overridden by g (INSERT OR REPLACE of the rows of g into f)
Replace(f, g) ==
    [k \in DOMAIN f \cup DOMAIN g |-> IF k \in DOMAIN g THEN g[k] ELSE f[k]]

NoTx == [av |-> EmptyTable, clear |-> FALSE, cv |-> EmptyTable]

\* The statistics dict before any SELECT has run
NoStatistics == [totalAvaliacoes |-> 0, avaliacoesHoje |-> 0,
                 distribuicao |-> EmptyTable, totalFeedbacks |-> 0]

NoResp == [status |-> 0, success |-> FALSE, id |-> "", hasVotedToday |-> FALSE,
           error |-> "", evaluations |-> <<>>, statistics |-> NoStatistics]

NoData == EmptyTable

NoPre == [av |-> EmptyTable, cv |-> EmptyTable, lg |-> <<>>, t |-> 0]

Snapshot == [av |-> avaliacoes, cv |-> controle_votacao, lg |-> logs_sistema,
             t |-> now]

\* dict.get(key, default)
Get(d, key, default) == IF key \in DOMAIN d THEN d[key] ELSE default

\* The values of the optional fields of a payload: JSON null (Python None),
\* a JSON object of sector ratings (dict), a JSON string (str).
Null == [type |-> "null", members |-> EmptyTable, text |-> ""]

Object(m) == [type |-> "object", members |-> m, text |-> ""]

String(t) == [type |-> "string", members |-> EmptyTable, text |-> t]

\* json.dumps: the text 'null' for None, and for a dict the text that lists
\* its members
JsonDumps(v) ==
    [literal |-> v.type, json |-> {<<k, v.members[k]>> : k \in DOMAIN v.members}]

\* json.loads of such a text
JsonLoads(s) ==
    IF s.literal = "null" THEN Null
    ELSE Object([k \in {p[1] : p \in s.json} |->
                    (CHOOSE p \in s.json : p[1] = k)[2]])

\* Truth value of a str: every text json.dumps returns is non-empty
TextIsTrue(s) == s.literal \in {"null", "object"}

\* x or '' for a TEXT column: NULL and '' are false
OrEmpty(v) == IF v.type = "null" \/ v.text = "" THEN String("") ELSE v

----------------------------------------------------------------------------
(* has_voted_today *)

\* The SELECT or the parse raises: the except branch logs and returns False.
HasVotedRaises(cv, dispositivo_id, ioError) ==
    \/ ioError
    \/ /\ dispositivo_id \in DOMAIN cv
       /\ ~IsoParseable(ReplaceZ(cv[dispositivo_id].ultimo_voto))

\* Variant: the except branch answers True (fails closed).
has_voted_todayFailClosed(cv, dispositivo_id, t, ioError) ==
    IF HasVotedRaises(cv, dispositivo_id, ioError) THEN TRUE
    ELSE IF dispositivo_id \notin DOMAIN cv THEN FALSE
    ELSE is_same_day(FromIsoFormat(ReplaceZ(cv[dispositivo_id].ultimo_voto)),
                     get_brazil_time(t))

\* Variant: a device without ledger row counts as having voted.
has_voted_todayUnknownVoted(cv, dispositivo_id, t, ioError) ==
    IF HasVotedRaises(cv, dispositivo_id, ioError) THEN FALSE
    ELSE IF dispositivo_id \notin DOMAIN cv THEN TRUE
    ELSE is_same_day(FromIsoFormat(ReplaceZ(cv[dispositivo_id].ultimo_voto)),
                     get_brazil_time(t))

has_voted_today(cv, dispositivo_id, t, ioError) ==
    IF HasVotedRaises(cv, dispositivo_id, ioError) THEN FALSE
    ELSE IF dispositivo_id \notin DOMAIN cv THEN FALSE
    ELSE is_same_day(FromIsoFormat(ReplaceZ(cv[dispositivo_id].ultimo_voto)),
                     get_brazil_time(t))

----------------------------------------------------------------------------
(* Initial state: DatabaseManager.init_database on an empty file *)

Init ==
    /\ now = StartTime
    /\ avaliacoes = EmptyTable
    /\ controle_votacao = EmptyTable
    /\ logs_sistema = <<>>
    /\ lock = NoWorker
    /\ op = [w \in Workers |-> "none"]
    /\ pc = [w \in Workers |-> "idle"]
    /\ data = [w \in Workers |-> NoData]
    /\ tx = [w \in Workers |-> NoTx]
    /\ resp = [w \in Workers |-> NoResp]
    /\ errs = [w \in Workers |-> {}]
    /\ pre = [w \in Workers |-> NoPre]

\* The clock advances by one hour.
Tick ==
    /\ now < StartTime + MaxTicks
    /\ now' = now + 1
    /\ UNCHANGED <<avaliacoes, controle_votacao, logs_sistema, lock, op,
                   pc, data, tx, resp, errs, pre>>

\* A request arrives at an idle worker thread.
Arrive(w, endpoint, first, d, snap) ==
    /\ pc[w] = "idle"
    /\ op' = [op EXCEPT ![w] = endpoint]
    /\ pc' = [pc EXCEPT ![w] = first]
    /\ data' = [data EXCEPT ![w] = d]
    /\ pre' = [pre EXCEPT ![w] = snap]
    /\ resp' = [resp EXCEPT ![w] = NoResp]
    /\ errs' = [errs EXCEPT ![w] = {}]
    /\ tx' = [tx EXCEPT ![w] = NoTx]
    /\ UNCHANGED <<now, avaliacoes, controle_votacao, logs_sistema, lock>>

\* The handler returns: the response is in resp[w].
Return(w, r) ==
    /\ pc' = [pc EXCEPT ![w] = "done"]
    /\ resp' = [resp EXCEPT ![w] = r]

\* The response has been sent; the thread is free again.
Finish(w) ==
    /\ pc[w] = "done"
    /\ op' = [op EXCEPT ![w] = "none"]
    /\ pc' = [pc EXCEPT ![w] = "idle"]
    /\ data' = [data EXCEPT ![w] = NoData]
    /\ pre' = [pre EXCEPT ![w] = NoPre]
    /\ resp' = [resp EXCEPT ![w] = NoResp]
    /\ errs' = [errs EXCEPT ![w] = {}]
    /\ UNCHANGED <<now, avaliacoes, controle_votacao, logs_sistema, lock,
                   tx>>

\* with get_connection(): conn.close() in the finally branch without a
\* commit discards the pending writes and frees the write lock.
CloseWithoutCommit(w) ==
    /\ tx' = [tx EXCEPT ![w] = NoTx]
    /\ lock' = IF lock = w THEN NoWorker ELSE lock

\* except Exception in a handler: log the error (errs records the statement
\* that raised), answer 500.
Error500(w, where, msg) ==
    /\ Return(w, [NoResp EXCEPT !.status = 500, !.error = msg])
    /\ errs' = [errs EXCEPT ![w] = @ \cup {where}]

----------------------------------------------------------------------------
(* POST /api/submit-evaluation *)

\* Variant: the timestamp is not checked.
required_fieldsNoTimestamp == <<"id", "dispositivoId", "avaliacaoGeral">>

required_fields == <<"id", "dispositivoId", "timestamp", "avaliacaoGeral">>

\* The keys the INSERT statements subscript: data['id'], ...
SubscriptedKeys == {"id", "dispositivoId", "timestamp", "avaliacaoGeral"}

\* for field in required_fields: if field not in data
MissingFields(d) ==
    {i \in 1..Len(required_fields) : required_fields[i] \notin DOMAIN d}

FirstMissing(d) ==
    required_fields[CHOOSE i \in MissingFields(d) :
                        \A j \in MissingFields(d) : i <= j]

\* request.get_json() and "Validar dados obrigatórios": no store access
SubmitArrives(w, payload, snap) ==
    /\ pc[w] = "idle"
    /\ op' = [op EXCEPT ![w] = "submit"]
    /\ data' = [data EXCEPT ![w] = payload]
    /\ pre' = [pre EXCEPT ![w] = snap]
    /\ errs' = [errs EXCEPT ![w] = {}]
    /\ tx' = [tx EXCEPT ![w] = NoTx]
    /\ IF MissingFields(payload) # {}
       THEN Return(w, [NoResp EXCEPT !.status = 400,
                                     !.error = FirstMissing(payload)])
       ELSE /\ pc' = [pc EXCEPT ![w] = "eligibility"]
            /\ resp' = [resp EXCEPT ![w] = NoResp]
    /\ UNCHANGED <<now, avaliacoes, controle_votacao, logs_sistema, lock>>

\* Verificar se já votou hoje
CheckEligibility(w) ==
    /\ op[w] = "submit" /\ pc[w] = "eligibility"
    /\ IF "dispositivoId" \notin DOMAIN data[w]
       THEN Error500(w, "subscript", "KeyError")
       ELSE \E ioError \in BOOLEAN :
        LET dispositivo_id == data[w]["dispositivoId"]
            raised == HasVotedRaises(controle_votacao, dispositivo_id, ioError)
        IN  /\ errs' = [errs EXCEPT ![w] =
                            IF raised THEN @ \cup {"has_voted_today"} ELSE @]
            /\ IF has_voted_today(controle_votacao, dispositivo_id, now, ioError)
               THEN Return(w, [NoResp EXCEPT !.status = 409,
                                             !.error = "Dispositivo ja votou hoje"])
               ELSE /\ pc' = [pc EXCEPT ![w] = "insert"]
                    /\ resp' = resp
    /\ UNCHANGED <<now, avaliacoes, controle_votacao, logs_sistema, lock, op,
                   data, tx, pre>>

\* The row the INSERT INTO avaliacoes binds
EvaluationRow(d, t) ==
    [dispositivo_id |-> d["dispositivoId"],
     timestamp |-> d["timestamp"],
     avaliacao_geral |-> d["avaliacaoGeral"],
     setores |-> JsonDumps(Get(d, "setores", Object(EmptyTable))),
     feedback |-> Get(d, "feedback", String("")),
     created_at |-> t]

\* What INSERT INTO avaliacoes leaves pending when the id is new
InsertPending(d, t) == Row1(d["id"], EvaluationRow(d, t))

\* Variant: INSERT OR REPLACE INTO avaliacoes never raises.
IntegrityErrorNever(av, d) == FALSE

\* The primary key of avaliacoes rejects the INSERT
IntegrityError(av, d) == d["id"] \in DOMAIN av

\* Variant: the connection is in autocommit mode (isolation_level=None), the
\* INSERT is visible at once.
InsertEvaluationAutocommit(w) ==
    /\ op[w] = "submit" /\ pc[w] = "insert"
    /\ lock = NoWorker
    /\ IF IntegrityError(avaliacoes, data[w])
       THEN /\ Error500(w, "insert", "UNIQUE constraint failed")
            /\ UNCHANGED <<tx, lock, avaliacoes>>
       ELSE /\ avaliacoes' = Replace(avaliacoes, InsertPending(data[w], now))
            /\ lock' = w
            /\ pc' = [pc EXCEPT ![w] = "upsert"]
            /\ UNCHANGED <<tx, resp, errs>>
    /\ UNCHANGED <<now, controle_votacao, logs_sistema, op, data, pre>>

\* INSERT INTO avaliacoes: opens the write transaction of the connection
InsertEvaluation(w) ==
    /\ op[w] = "submit" /\ pc[w] = "insert"
    /\ lock = NoWorker
    /\ IF ~(SubscriptedKeys \subseteq DOMAIN data[w])
       THEN /\ Error500(w, "subscript", "KeyError")
            /\ UNCHANGED <<tx, lock>>
       ELSE IF IntegrityError(avaliacoes, data[w])
       THEN /\ Error500(w, "insert", "UNIQUE constraint failed")
            /\ UNCHANGED <<tx, lock>>
       ELSE /\ tx' = [tx EXCEPT ![w].av = InsertPending(data[w], now)]
            /\ lock' = w
            /\ pc' = [pc EXCEPT ![w] = "upsert"]
            /\ UNCHANGED <<resp, errs>>
    /\ UNCHANGED <<now, avaliacoes, controle_votacao, logs_sistema, op,
                   data, pre>>

\* The row INSERT OR REPLACE INTO controle_votacao binds
VoteRow(d, t) ==
    [ultimo_voto |-> d["timestamp"], updated_at |-> IsoFormat(get_brazil_time(t))]

\* Atualizar controle de votação
UpsertVote(w) ==
    /\ op[w] = "submit" /\ pc[w] = "upsert"
    /\ tx' = [tx EXCEPT ![w].cv = Row1(data[w]["dispositivoId"], VoteRow(data[w], now))]
    /\ pc' = [pc EXCEPT ![w] = "commit"]
    /\ UNCHANGED <<now, avaliacoes, controle_votacao, logs_sistema, lock,
                   op, data, resp, errs, pre>>

\* Variant: the reset deletes the evaluations too.
CommittedAvaliacoesWiped(av, t) ==
    IF t.clear THEN EmptyTable ELSE Replace(av, t.av)

\* Variant: the commit loses the pending evaluation.
CommittedAvaliacoesLost(av, t) == av

\* The committed tables after conn.commit() of a connection with pending t
CommittedAvaliacoes(av, t) == Replace(av, t.av)

CommittedControle(cv, t) == Replace(IF t.clear THEN EmptyTable ELSE cv, t.cv)

\* conn.commit()
Commit(w) ==
    /\ pc[w] = "commit"
    /\ avaliacoes' = CommittedAvaliacoes(avaliacoes, tx[w])
    /\ controle_votacao' = CommittedControle(controle_votacao, tx[w])
    /\ tx' = [tx EXCEPT ![w] = NoTx]
    /\ lock' = NoWorker
    /\ pc' = [pc EXCEPT ![w] = "log"]
    /\ UNCHANGED <<now, logs_sistema, op, data, resp, errs, pre>>

\* A statement or the commit of the connection raises (disk I/O error,
\* "database is locked" after the busy timeout): the handler's except
\* branch answers 500 and the connection is closed without commit.
StoreFails(w) ==
    /\ pc[w] \in {"insert", "upsert", "delete", "commit"}
    /\ Error500(w, pc[w], "OperationalError")
    /\ CloseWithoutCommit(w)
    /\ UNCHANGED <<now, avaliacoes, controle_votacao, logs_sistema, op, data, pre>>

\* log_action: INSERT INTO logs_sistema and commit on a connection of its own
LogRow(acao, detalhes, t) ==
    [acao |-> acao, detalhes |-> detalhes,
     timestamp |-> IsoFormat(get_brazil_time(t))]

LogDetails(w) ==
    IF op[w] = "submit"
    THEN <<"AVALIACAO_ENVIADA", <<data[w]["dispositivoId"], data[w]["avaliacaoGeral"]>>>>
    ELSE <<"TIMER_RESETADO", <<"manual", "">>>>

\* Variant: a failing log append is answered 500.
LogAndRespondEscalates(w) ==
    /\ pc[w] = "log"
    /\ \/ /\ lock = NoWorker
          /\ logs_sistema' = Append(logs_sistema,
                                    LogRow(LogDetails(w)[1], LogDetails(w)[2], now))
          /\ errs' = errs
          /\ Return(w, [NoResp EXCEPT !.status = 200, !.success = TRUE,
                            !.id = IF op[w] = "submit" THEN data[w]["id"] ELSE ""])
       \/ /\ logs_sistema' = logs_sistema
          /\ Error500(w, "log_action", "OperationalError")
    /\ UNCHANGED <<now, avaliacoes, controle_votacao, lock, op, data, tx, pre>>

\* Variant: the log entry is written twice.
LogAndRespondTwice(w) ==
    /\ pc[w] = "log"
    /\ LET row == LogRow(LogDetails(w)[1], LogDetails(w)[2], now)
       IN  logs_sistema' = Append(Append(logs_sistema, row), row)
    /\ errs' = errs
    /\ Return(w, [NoResp EXCEPT !.status = 200, !.success = TRUE,
                                !.id = IF op[w] = "submit" THEN data[w]["id"] ELSE ""])
    /\ UNCHANGED <<now, avaliacoes, controle_votacao, lock, op, data, tx, pre>>

\* Log da ação, then the success response
LogAndRespond(w) ==
    /\ pc[w] = "log"
    /\ \/ /\ lock = NoWorker
          /\ logs_sistema' = Append(logs_sistema,
                                    LogRow(LogDetails(w)[1], LogDetails(w)[2], now))
          /\ errs' = errs
       \/ /\ logs_sistema' = logs_sistema
          /\ errs' = [errs EXCEPT ![w] = @ \cup {"log_action"}]
    /\ Return(w, [NoResp EXCEPT !.status = 200, !.success = TRUE,
                                !.id = IF op[w] = "submit" THEN data[w]["id"] ELSE ""])
    /\ UNCHANGED <<now, avaliacoes, controle_votacao, lock, op, data, tx, pre>>

----------------------------------------------------------------------------
(* GET /api/check-vote/<dispositivo_id> *)

CheckVoteArrives(w, dispositivo_id, snap) ==
    Arrive(w, "check", "check", [dispositivo_id |-> dispositivo_id], snap)

\* Variant: the eligibility query is recorded in logs_sistema.
check_voteLogged(w) ==
    /\ op[w] = "check" /\ pc[w] = "check"
    /\ Return(w, [NoResp EXCEPT
                    !.status = 200, !.success = TRUE,
                    !.hasVotedToday =
                        has_voted_today(controle_votacao, data[w].dispositivo_id,
                                        now, FALSE)])
    /\ logs_sistema' = Append(logs_sistema,
                              LogRow("VOTO_VERIFICADO", <<data[w].dispositivo_id, "">>, now))
    /\ UNCHANGED <<now, avaliacoes, controle_votacao, lock, op, data, tx, errs, pre>>

check_vote(w) ==
    /\ op[w] = "check" /\ pc[w] = "check"
    /\ \E ioError \in BOOLEAN :
        LET dispositivo_id == data[w].dispositivo_id
            raised == HasVotedRaises(controle_votacao, dispositivo_id, ioError)
        IN  /\ errs' = [errs EXCEPT ![w] =
                            IF raised THEN @ \cup {"has_voted_today"} ELSE @]
            /\ Return(w, [NoResp EXCEPT
                            !.status = 200, !.success = TRUE,
                            !.hasVotedToday =
                                has_voted_today(controle_votacao, dispositivo_id,
                                                now, ioError)])
    /\ UNCHANGED <<now, avaliacoes, controle_votacao, logs_sistema, lock, op,
                   data, tx, pre>>

----------------------------------------------------------------------------
(* GET /api/evaluations *)

ListArrives(w, snap) == Arrive(w, "list", "select", NoData, snap)

\* The dict built for one row
Evaluation(id, row) ==
    [id |-> id,
     dispositivoId |-> row.dispositivo_id,
     timestamp |-> row.timestamp,
     avaliacaoGeral |-> row.avaliacao_geral,
     setores |-> IF TextIsTrue(row.setores) THEN JsonLoads(row.setores)
                 ELSE Object(EmptyTable),
     feedback |-> OrEmpty(row.feedback)]

\* Comparison of two timestamp texts: the date and time first, then the
\* offset designator; a text that is no ISO-8601 date sorts after the digits.
SuffixRank(s) ==
    CASE s.suffix = "Z" -> 3 [] s.suffix = "-03:00" -> 2 [] OTHER -> 1

TextGreater(a, b) ==
    IF a.suffix = "?" \/ b.suffix = "?"
    THEN a.suffix = "?" /\ b.suffix # "?"
    ELSE \/ a.wall > b.wall
         \/ a.wall = b.wall /\ SuffixRank(a) > SuffixRank(b)

\* ORDER BY timestamp DESC: the orders in which the ids of av may be
\* returned (rows with equal texts come in any order)
OrderByTimestampDesc(av) ==
    {s \in [1..Cardinality(DOMAIN av) -> DOMAIN av] :
        /\ \A i, j \in DOMAIN s : s[i] = s[j] => i = j
        /\ \A i, j \in DOMAIN s :
            i < j => ~TextGreater(av[s[j]].timestamp, av[s[i]].timestamp)}

\* SELECT ... FROM avaliacoes ORDER BY timestamp DESC, then the response
get_evaluations(w) ==
    /\ op[w] = "list" /\ pc[w] = "select"
    /\ \E s \in OrderByTimestampDesc(avaliacoes) :
        Return(w, [NoResp EXCEPT
                    !.status = 200, !.success = TRUE,
                    !.evaluations =
                        [k \in DOMAIN s |-> Evaluation(s[k], avaliacoes[s[k]])]])
    /\ UNCHANGED <<now, avaliacoes, controle_votacao, logs_sistema, lock, op,
                   data, tx, errs, pre>>

\* A SELECT of a read-only handler raises: its except branch answers 500.
ReadFails(w) ==
    /\ op[w] \in {"list", "stats"} /\ pc[w] \notin {"idle", "done"}
    /\ Error500(w, pc[w], "OperationalError")
    /\ UNCHANGED <<now, avaliacoes, controle_votacao, logs_sistema, lock, op,
                   data, tx, pre>>

----------------------------------------------------------------------------
(* GET /api/statistics *)

StatsArrives(w, snap) == Arrive(w, "stats", "count", NoData, snap)

\* SELECT COUNT(*) FROM avaliacoes
CountAll(av) == Cardinality(DOMAIN av)

\* SQLite's DATE(timestamp): the UTC calendar day of a text with a time-zone
\* designator, NULL (here -1) for a text that is no date
SqlDate(s) ==
    IF ~IsoParseable(ReplaceZ(s)) THEN -1
    ELSE (s.wall - FromIsoFormat(ReplaceZ(s)).off) \div HoursPerDay

\* SELECT COUNT(*) FROM avaliacoes WHERE DATE(timestamp) = hoje
CountToday(av, t) ==
    Cardinality({i \in DOMAIN av :
                    SqlDate(av[i].timestamp) = DateOf(get_brazil_time(t))})

\* Variant: every known rating label is a key, unseen ones with count 0.
GroupByRatingZeroFilled(av) ==
    [r \in {"otimo", "regular"} |->
        Cardinality({i \in DOMAIN av : av[i].avaliacao_geral = r})]

\* SELECT avaliacao_geral, COUNT(*) FROM avaliacoes GROUP BY avaliacao_geral
GroupByRating(av) ==
    [r \in {av[i].avaliacao_geral : i \in DOMAIN av} |->
        Cardinality({i \in DOMAIN av : av[i].avaliacao_geral = r})]

\* SELECT COUNT(*) ... WHERE feedback IS NOT NULL AND feedback != ""
CountFeedbacks(av) ==
    Cardinality({i \in DOMAIN av :
                    av[i].feedback.type # "null" /\ av[i].feedback.text # ""})

\* One SELECT of get_statistics: its result is kept in the statistics dict
\* of the response under construction.  Each SELECT reads the table as
\* committed when it runs: the connection opens no transaction for reads.
StatisticsStep(w, at, next, stats) ==
    /\ op[w] = "stats" /\ pc[w] = at
    /\ pc' = [pc EXCEPT ![w] = next]
    /\ resp' = [resp EXCEPT ![w].statistics = stats]
    /\ UNCHANGED <<now, avaliacoes, controle_votacao, logs_sistema, lock, op,
                   data, tx, errs, pre>>

SelectTotal(w) ==
    StatisticsStep(w, "count", "today",
        [resp[w].statistics EXCEPT !.totalAvaliacoes = CountAll(avaliacoes)])

SelectToday(w) ==
    StatisticsStep(w, "today", "group",
        [resp[w].statistics EXCEPT !.avaliacoesHoje = CountToday(avaliacoes, now)])

SelectDistribution(w) ==
    StatisticsStep(w, "group", "feedbacks",
        [resp[w].statistics EXCEPT !.distribuicao = GroupByRating(avaliacoes)])

\* The last SELECT, then the response
SelectFeedbacks(w) ==
    /\ op[w] = "stats" /\ pc[w] = "feedbacks"
    /\ Return(w, [NoResp EXCEPT
                    !.status = 200, !.success = TRUE,
                    !.statistics = [resp[w].statistics EXCEPT
                        !.totalFeedbacks = CountFeedbacks(avaliacoes)]])
    /\ UNCHANGED <<now, avaliacoes, controle_votacao, logs_sistema, lock, op,
                   data, tx, errs, pre>>

get_statistics(w) ==
    \/ SelectTotal(w)
    \/ SelectToday(w)
    \/ SelectDistribution(w)
    \/ SelectFeedbacks(w)

----------------------------------------------------------------------------
(* POST /api/reset-timer *)

ResetsLogged ==
    Cardinality({i \in 1..Len(logs_sistema) : logs_sistema[i].acao = "TIMER_RESETADO"})

ResetArrives(w, snap) ==
    /\ ResetsLogged < MaxResets
    /\ Arrive(w, "reset", "delete", NoData, snap)

\* Variant: the DELETE removes nothing.
DeletePendingNothing(t) == t

\* What DELETE FROM controle_votacao leaves pending
DeletePending(t) == [t EXCEPT !.clear = TRUE, !.cv = EmptyTable]

\* Limpar controle de votação
DeleteVotes(w) ==
    /\ op[w] = "reset" /\ pc[w] = "delete"
    /\ lock = NoWorker
    /\ lock' = w
    /\ tx' = [tx EXCEPT ![w] = DeletePending(@)]
    /\ pc' = [pc EXCEPT ![w] = "commit"]
    /\ UNCHANGED <<now, avaliacoes, controle_votacao, logs_sistema, op,
                   data, resp, errs, pre>>

----------------------------------------------------------------------------
(* Specifications *)


\* A complete payload without optional fields
Payload(id, dev, ts, rating) ==
    [id |-> id, dispositivoId |-> dev, timestamp |-> ts, avaliacaoGeral |-> rating]

Without(d, key) == [k \in DOMAIN d \ {key} |-> d[k]]

Ratings == {"otimo"}

\* Payloads that lack one required field
PartialPayloads ==
    {Without(Payload(IdSeq[1], DeviceSeq[1], ClientStamp("local", now), "otimo"), k) :
        k \in SubscriptedKeys}

Payloads(ids, devs, kinds) ==
    {Payload(i, d, ClientStamp(k, now), r) :
        i \in ids, d \in devs, k \in kinds, r \in Ratings}

\* Ids and device names are opaque: a client sends an id that is stored or in
\* flight, or the first unused one, and the devices appear in the order of
\* DeviceSeq.
Prefix(seq, used) ==
    {seq[i] : i \in {j \in 1..Len(seq) : \A k \in 1..(j - 1) : seq[k] \in used}}

InFlight(key) ==
    {data[w][key] : w \in {v \in Workers : key \in DOMAIN data[v]}}

KnownIds == Prefix(IdSeq, DOMAIN avaliacoes \cup InFlight("id"))

KnownDevices ==
    Prefix(DeviceSeq, {avaliacoes[i].dispositivo_id : i \in DOMAIN avaliacoes}
                          \cup InFlight("dispositivoId") \cup InFlight("dispositivo_id"))

\* The statements of submit_evaluation after the payload is validated
SubmitStep(w) ==
    \/ CheckEligibility(w)
    \/ InsertEvaluation(w)
    \/ UpsertVote(w)
    \/ Commit(w)
    \/ StoreFails(w)
    \/ LogAndRespond(w)
    \/ Finish(w)

Step(w) ==
    \/ SubmitStep(w)
    \/ check_vote(w)
    \/ DeleteVotes(w)

Request(w, payloads, snap) ==
    \/ \E p \in payloads : SubmitArrives(w, p, snap)
    \/ \E d \in KnownDevices : CheckVoteArrives(w, d, snap)
    \/ ResetArrives(w, snap)

\* Worker threads serve requests concurrently, within one hour.
NextConc ==
    \/ \E w \in Workers : Request(w, Payloads(KnownIds, KnownDevices, {"local"}), NoPre)
    \/ \E w \in Workers : Step(w)

SpecConc == Init /\ [][NextConc]_vars

\* Worker threads serve submissions concurrently, within one hour; no reset
\* is requested.
NextSubmits ==
    \/ \E w \in Workers : \E p \in Payloads(KnownIds, KnownDevices, {"local"}) :
            SubmitArrives(w, p, NoPre)
    \/ \E w \in Workers : SubmitStep(w)

SpecSubmits == Init /\ [][NextSubmits]_vars

AllIdle == \A w \in Workers : pc[w] = "idle"

SeqWorker == CHOOSE w \in Workers : TRUE

\* Requests arrive one after the other: a request is served to its end
\* before the next one arrives or the hour changes.
NextSeq ==
    \/ AllIdle /\ Tick
    \/ AllIdle /\ Request(SeqWorker, Payloads(KnownIds, KnownDevices, StampKinds)
                                           \cup PartialPayloads, Snapshot)
    \/ \E w \in Workers : Step(w)

SpecSeq == Init /\ [][NextSeq]_vars

\* The optional fields a client sends along
OptionalFields ==
    { EmptyTable,
      [setores |-> Object([forno |-> 5, moagem |-> 3]), feedback |-> String("bom")],
      [setores |-> Object(EmptyTable), feedback |-> String("")],
      [setores |-> Null, feedback |-> Null] }

ReadRatings == {"otimo", "regular"}

\* Complete payloads with optional fields
RichPayloads(ids, devs, opts) ==
    {Replace(Payload(i, d, ClientStamp("local", now), r), o) :
        i \in ids, d \in devs, r \in ReadRatings, o \in opts}

\* The thread that serves the read requests of SpecReads and SpecStats
ReadWorker == CHOOSE w \in Workers : w # SeqWorker

ReadRequest(w, snap) ==
    \/ ListArrives(w, snap)
    \/ StatsArrives(w, snap)
    \/ \E d \in KnownDevices : CheckVoteArrives(w, d, snap)

ReadStep(w) ==
    \/ get_evaluations(w)
    \/ get_statistics(w)
    \/ ReadFails(w)
    \/ check_vote(w)

\* Submissions with optional fields and the read endpoints, one request
\* after the other: a read request arrives when the submission has been
\* answered, and the next submission when the read has ended.
NextReads ==
    \/ AllIdle /\ \E p \in RichPayloads(KnownIds, KnownDevices, OptionalFields) :
            SubmitArrives(SeqWorker, p, Snapshot)
    \/ /\ pc[SeqWorker] \in {"idle", "done"}
       /\ ReadRequest(ReadWorker, Snapshot)
    \/ SubmitStep(SeqWorker)
    \/ ReadStep(ReadWorker) \/ Finish(ReadWorker)

SpecReads == Init /\ [][NextReads]_vars

\* A statistics request is served while submissions are served.
NextStats ==
    \/ \E p \in RichPayloads(KnownIds, KnownDevices,
                             {EmptyTable, [feedback |-> String("bom")]}) :
            SubmitArrives(SeqWorker, p, NoPre)
    \/ StatsArrives(ReadWorker, NoPre)
    \/ SubmitStep(SeqWorker)
    \/ get_statistics(ReadWorker) \/ ReadFails(ReadWorker) \/ Finish(ReadWorker)

SpecStats == Init /\ [][NextStats]_vars

\* Worker threads serve the submissions of one device, stamped by either
\* kind of client clock, and resets concurrently.
NextLedger ==
    \/ \E w \in Workers : \E p \in Payloads(KnownIds, {DeviceSeq[1]}, {"Z", "local"}) :
            SubmitArrives(w, p, NoPre)
    \/ \E w \in Workers : ResetArrives(w, NoPre)
    \/ \E w \in Workers : SubmitStep(w) \/ DeleteVotes(w)

SpecLedger == Init /\ [][NextLedger]_vars

----------------------------------------------------------------------------
(* Vocabulary of the properties *)

\* The calendar day, in Sao Paulo, of the instant t
LocalDay(t) == (t + UtcOffset) \div HoursPerDay

\* The instant an ISO-8601 text with offset designator denotes
InstantOf(s) ==
    s.wall - (IF s.suffix = "-03:00" THEN UtcOffset ELSE 0)

WellFormed(s) == s.suffix \in {"Z", "+00:00", "-03:00"}

FourFields == {"id", "dispositivoId", "timestamp", "avaliacaoGeral"}

SubmitDone(w) == op[w] = "submit" /\ pc[w] = "done"

\* The request of w is a submission with the four required fields and an id
\* that was not stored when it arrived.
FreshSubmitDone(w) ==
    /\ SubmitDone(w)
    /\ FourFields \subseteq DOMAIN data[w]
    /\ data[w]["id"] \notin DOMAIN pre[w].av

\* Device d had a submission accepted on the local day of instant t, and no
\* reset since: its ledger row was written on that day.
AcceptedOnDayOf(cv, d, t) ==
    /\ d \in DOMAIN cv
    /\ cv[d].updated_at.wall \div HoursPerDay = LocalDay(t)

\* Device d had a submission accepted on an earlier local day, and no reset
\* since.
AcceptedBeforeDayOf(cv, d, t) ==
    /\ d \in DOMAIN cv
    /\ cv[d].updated_at.wall \div HoursPerDay < LocalDay(t)

\* No statement of the request of w raised.
NoFailure(w) == errs[w] = {}

TablesAsOnArrival(w) ==
    /\ avaliacoes = pre[w].av
    /\ controle_votacao = pre[w].cv

----------------------------------------------------------------------------
(* Properties *)

\* C1: when a device whose earlier submission was accepted on the same local
\* day (no reset in between) submits again, with all four fields, a new id
\* and a well-formed stored timestamp, and nothing fails, the answer is 409
\* and both tables are as they were when the request arrived.
C1_SecondSubmissionRejected ==
    \A w \in Workers :
        (/\ FreshSubmitDone(w) /\ NoFailure(w)
         /\ AcceptedOnDayOf(pre[w].cv, data[w]["dispositivoId"], pre[w].t)
         /\ WellFormed(pre[w].cv[data[w]["dispositivoId"]].ultimo_voto))
        => (resp[w].status = 409 /\ TablesAsOnArrival(w))

\* C2: a submission (four fields, new id, nothing fails) of a device whose
\* last accepted submission was on an earlier local day is accepted: its row
\* is added to avaliacoes, the rows stored before remain, and
\* controle_votacao holds the row of the device with the timestamp of this
\* later submission.
C2_NextDaySubmissionAccepted ==
    \A w \in Workers :
        (/\ FreshSubmitDone(w) /\ NoFailure(w)
         /\ AcceptedBeforeDayOf(pre[w].cv, data[w]["dispositivoId"], pre[w].t))
        => /\ resp[w].status = 200
           /\ data[w]["id"] \in DOMAIN avaliacoes
           /\ \A i \in DOMAIN pre[w].av :
                i \in DOMAIN avaliacoes /\ avaliacoes[i] = pre[w].av[i]
           /\ data[w]["dispositivoId"] \in DOMAIN controle_votacao
           /\ controle_votacao[data[w]["dispositivoId"]].ultimo_voto
                = data[w]["timestamp"]

\* C5: check-vote answers hasVotedToday = TRUE exactly when the device has a
\* ledger row and the Sao Paulo calendar day of the instant of its
\* lastVoteAt is the Sao Paulo calendar day of the current time (for every
\* well-formed stored timestamp, when the read does not fail).
C5_SameLocalDay ==
    \A w \in Workers :
        (op[w] = "check" /\ pc[w] = "done" /\ NoFailure(w)) =>
            LET d == data[w].dispositivo_id
            IN  resp[w].hasVotedToday =
                    (/\ d \in DOMAIN controle_votacao
                     /\ LocalDay(InstantOf(controle_votacao[d].ultimo_voto))
                            = LocalDay(now))

\* C3: concurrent submissions of one device on one local day: as long as no
\* statement of a request being served has raised, avaliacoes never holds two
\* rows of the same device inserted on the same local day.
C3_OneRowPerDevicePerDay ==
    (\A w \in Workers : NoFailure(w)) =>
        \A i, j \in DOMAIN avaliacoes :
            (/\ avaliacoes[i].dispositivo_id = avaliacoes[j].dispositivo_id
             /\ LocalDay(avaliacoes[i].created_at)
                    = LocalDay(avaliacoes[j].created_at))
            => i = j

\* C4: the committed tables change together: a step that adds an evaluation
\* adds exactly one row and leaves the ledger row of its device holding its
\* timestamp (no other ledger row changes); a step that changes the ledger
\* either adds an evaluation too or is the reset that empties the ledger.
C4_WritesCommitTogether ==
    [][/\ avaliacoes' # avaliacoes =>
            \E i \in DOMAIN avaliacoes' \ DOMAIN avaliacoes :
                LET r == avaliacoes'[i]
                IN  /\ avaliacoes' = Replace(avaliacoes, Row1(i, r))
                    /\ r.dispositivo_id \in DOMAIN controle_votacao'
                    /\ controle_votacao'[r.dispositivo_id].ultimo_voto = r.timestamp
                    /\ \A d \in DOMAIN controle_votacao \ {r.dispositivo_id} :
                        /\ d \in DOMAIN controle_votacao'
                        /\ controle_votacao'[d] = controle_votacao[d]
       /\ controle_votacao' # controle_votacao =>
            \/ avaliacoes' # avaliacoes
            \/ controle_votacao' = EmptyTable]_vars

\* A submission failed after its INSERT and was rolled back, while another
\* request is being served and a committed evaluation is stored.
C4_Witness ==
    \E w, v \in Workers :
        /\ SubmitDone(w) /\ resp[w].status = 500
        /\ errs[w] \cap {"upsert", "commit"} # {}
        /\ data[w]["id"] \notin DOMAIN avaliacoes
        /\ v # w /\ pc[v] \in {"check", "eligibility"}
        /\ avaliacoes # EmptyTable

\* C6: a submission that lacks one of the four required fields is answered
\* 400 and leaves avaliacoes and controle_votacao as they were.
C6_MissingFieldRejected ==
    \A w \in Workers :
        (SubmitDone(w) /\ ~(FourFields \subseteq DOMAIN data[w]))
        => (resp[w].status = 400 /\ TablesAsOnArrival(w))

C6_Witness ==
    \E w \in Workers :
        /\ SubmitDone(w) /\ "timestamp" \notin DOMAIN data[w]
        /\ resp[w].status = 400 /\ resp[w].error = "timestamp"
        /\ pre[w].av # EmptyTable /\ pre[w].cv # EmptyTable

\* C7: when a reset has answered 200 the ledger is empty and has_voted_today
\* is false for every device; a submission (four fields, new id, no failing
\* store statement) of a device without ledger row is accepted.
C7_ResetMakesEligible ==
    \A w \in Workers :
        /\ (op[w] = "reset" /\ pc[w] = "done" /\ resp[w].status = 200)
            => /\ controle_votacao = EmptyTable
               /\ \A d \in Devices : ~has_voted_today(controle_votacao, d, now, FALSE)
        /\ (/\ FreshSubmitDone(w)
            /\ data[w]["dispositivoId"] \notin DOMAIN pre[w].cv
            /\ errs[w] \cap {"insert", "upsert", "commit"} = {})
            => /\ resp[w].status = 200
               /\ data[w]["id"] \in DOMAIN avaliacoes

\* A device that voted earlier on this local day, and whose ledger row a
\* reset removed, has its next submission accepted.
C7_Witness ==
    \E w \in Workers :
        /\ FreshSubmitDone(w) /\ resp[w].status = 200
        /\ data[w]["dispositivoId"] \notin DOMAIN pre[w].cv
        /\ \E i \in DOMAIN pre[w].av :
            /\ pre[w].av[i].dispositivo_id = data[w]["dispositivoId"]
            /\ LocalDay(pre[w].av[i].created_at) = LocalDay(now)

\* C8: no step removes or changes a stored evaluation.
C8_HistoryPreserved ==
    [][\A i \in DOMAIN avaliacoes :
            i \in DOMAIN avaliacoes' /\ avaliacoes'[i] = avaliacoes[i]]_vars

\* A reset has answered 200 and the evaluations are still stored.
C8_Witness ==
    \E w \in Workers :
        /\ op[w] = "reset" /\ pc[w] = "done" /\ resp[w].status = 200
        /\ controle_votacao = EmptyTable
        /\ Cardinality(DOMAIN avaliacoes) = Len(IdSeq)

\* C9: a submission with the four fields whose id is already stored, from a
\* device that passes the eligibility check, is answered 500 and leaves
\* avaliacoes and controle_votacao as they were.
C9_DuplicateIdFails ==
    \A w \in Workers :
        (/\ SubmitDone(w) /\ FourFields \subseteq DOMAIN data[w]
         /\ data[w]["id"] \in DOMAIN pre[w].av
         /\ ~has_voted_today(pre[w].cv, data[w]["dispositivoId"], pre[w].t, FALSE))
        => (resp[w].status = 500 /\ TablesAsOnArrival(w))

\* The primary key rejected a submission whose content differs from the
\* stored row, sent by a device with a ledger row of an earlier day.
C9_Witness ==
    \E w \in Workers :
        /\ SubmitDone(w) /\ resp[w].status = 500
        /\ resp[w].error = "UNIQUE constraint failed"
        /\ data[w]["id"] \in DOMAIN pre[w].av
        /\ pre[w].av[data[w]["id"]].timestamp # data[w]["timestamp"]
        /\ data[w]["dispositivoId"] \in DOMAIN pre[w].cv

\* C10: when the stored lastVoteAt of the device is malformed or the read of
\* has_voted_today fails, check-vote answers 200 with hasVotedToday = FALSE
\* and a submission is not answered 409.
C10_PermissiveOnFailure ==
    \A w \in Workers :
        LET failed(cv, d) ==
                \/ "has_voted_today" \in errs[w]
                \/ d \in DOMAIN cv /\ ~WellFormed(cv[d].ultimo_voto)
        IN  /\ (/\ op[w] = "check" /\ pc[w] = "done"
                /\ failed(controle_votacao, data[w].dispositivo_id))
                => /\ resp[w].status = 200 /\ resp[w].success
                   /\ ~resp[w].hasVotedToday
            /\ (/\ SubmitDone(w) /\ FourFields \subseteq DOMAIN data[w]
                /\ failed(pre[w].cv, data[w]["dispositivoId"]))
                => resp[w].status \in {200, 500}

\* A device whose ledger row of this local day holds a malformed timestamp
\* had another submission accepted.
C10_Witness ==
    \E w \in Workers :
        /\ FreshSubmitDone(w) /\ resp[w].status = 200
        /\ AcceptedOnDayOf(pre[w].cv, data[w]["dispositivoId"], pre[w].t)
        /\ ~WellFormed(pre[w].cv[data[w]["dispositivoId"]].ultimo_voto)

\* C11: when the append of the system-log entry fails after the commit, the
\* submission is answered 200 with the evaluation id and its evaluation and
\* ledger rows are stored; a reset whose log append fails is answered 200
\* with the ledger emptied.  No log entry is added.
C11_LoggingBestEffort ==
    \A w \in Workers :
        (pc[w] = "done" /\ "log_action" \in errs[w]) =>
            /\ resp[w].status = 200 /\ resp[w].success
            /\ logs_sistema = pre[w].lg
            /\ op[w] = "submit" =>
                /\ resp[w].id = data[w]["id"]
                /\ data[w]["id"] \in DOMAIN avaliacoes
                /\ avaliacoes[data[w]["id"]] = EvaluationRow(data[w], pre[w].t)
                /\ data[w]["dispositivoId"] \in DOMAIN controle_votacao
                /\ controle_votacao[data[w]["dispositivoId"]].ultimo_voto
                        = data[w]["timestamp"]
            /\ op[w] = "reset" => controle_votacao = EmptyTable

\* The log append of an accepted submission failed: its rows are committed
\* and the log is as it was.
C11_Witness ==
    \E w \in Workers :
        /\ SubmitDone(w) /\ "log_action" \in errs[w]
        /\ resp[w].status = 200
        /\ data[w]["id"] \in DOMAIN avaliacoes \ DOMAIN pre[w].av
        /\ logs_sistema = pre[w].lg

\* What a payload submits for an optional field: its value, or the empty
\* value when the field is left out or null
Submitted(d, key, empty) ==
    IF key \in DOMAIN d /\ d[key].type # "null" THEN d[key] ELSE empty

\* C12: when a submission has been accepted, the list endpoint returns an
\* entry with its id whose sectors mapping and feedback text are the ones
\* submitted, {} and "" when they were left out; no listed entry has a null
\* sectors mapping or a null feedback.
C12_SubmitListRoundTrip ==
    LET w == SeqWorker
        v == ReadWorker
    IN  (/\ SubmitDone(w) /\ resp[w].status = 200
         /\ op[v] = "list" /\ pc[v] = "done" /\ resp[v].status = 200)
        => /\ \E k \in DOMAIN resp[v].evaluations :
                LET e == resp[v].evaluations[k]
                IN  /\ e.id = data[w]["id"]
                    /\ e.setores = Submitted(data[w], "setores", Object(EmptyTable))
                    /\ e.feedback = Submitted(data[w], "feedback", String(""))
           /\ \A k \in DOMAIN resp[v].evaluations :
                /\ resp[v].evaluations[k].setores.type # "null"
                /\ resp[v].evaluations[k].feedback.type # "null"

\* The sum of the values of a function with a finite domain
RECURSIVE SumOf(_)
SumOf(f) ==
    IF DOMAIN f = {} THEN 0
    ELSE LET k == CHOOSE x \in DOMAIN f : TRUE
         IN  f[k] + SumOf([x \in DOMAIN f \ {k} |-> f[x]])

StatsDone(w) == op[w] = "stats" /\ pc[w] = "done" /\ resp[w].status = 200

\* C13: with no writer at work, the statistics answered for the stored
\* table are: totalAvaliacoes the number of rows; distribuicao the map whose
\* keys are exactly the ratings that occur, each with its number of rows
\* (none zero, summing to totalAvaliacoes); totalFeedbacks the number of rows
\* whose feedback is neither null nor empty.
C13_StatisticsOfTable ==
    LET v == ReadWorker
        st == resp[v].statistics
        rows == DOMAIN avaliacoes
    IN  StatsDone(v) =>
            /\ st.totalAvaliacoes = Cardinality(rows)
            /\ DOMAIN st.distribuicao = {avaliacoes[i].avaliacao_geral : i \in rows}
            /\ \A r \in DOMAIN st.distribuicao :
                /\ st.distribuicao[r] > 0
                /\ st.distribuicao[r]
                    = Cardinality({i \in rows : avaliacoes[i].avaliacao_geral = r})
            /\ SumOf(st.distribuicao) = st.totalAvaliacoes
            /\ st.totalFeedbacks
                = Cardinality({i \in rows : avaliacoes[i].feedback \notin {Null, String("")}})

\* Statistics answered for two stored rows of different ratings, one of them
\* with a feedback text.
C13_Witness ==
    /\ StatsDone(ReadWorker)
    /\ resp[ReadWorker].statistics.totalAvaliacoes = 2
    /\ Cardinality(DOMAIN resp[ReadWorker].statistics.distribuicao) = 2
    /\ resp[ReadWorker].statistics.totalFeedbacks = 1

\* C14: for a device without ledger row has_voted_today is false, whether
\* or not its read fails, and check-vote answers 200 with success and
\* hasVotedToday = FALSE.
C14_UnknownDeviceNotVoted ==
    \A w \in Workers :
        (/\ op[w] = "check" /\ pc[w] = "done"
         /\ data[w].dispositivo_id \notin DOMAIN controle_votacao)
        => /\ resp[w].status = 200 /\ resp[w].success
           /\ ~resp[w].hasVotedToday
           /\ \A ioError \in BOOLEAN :
                ~has_voted_today(controle_votacao, data[w].dispositivo_id, now, ioError)

\* check-vote has answered for a device that voted on this local day and
\* whose ledger row a reset removed.
C14_Witness ==
    \E w \in Workers :
        /\ op[w] = "check" /\ pc[w] = "done" /\ NoFailure(w)
        /\ data[w].dispositivo_id \notin DOMAIN controle_votacao
        /\ \E i \in DOMAIN avaliacoes :
            /\ avaliacoes[i].dispositivo_id = data[w].dispositivo_id
            /\ LocalDay(avaliacoes[i].created_at) = LocalDay(now)
        /\ ~resp[w].hasVotedToday

\* C15: the statistics answered while submissions commit describe the table
\* at one instant: the counts of distribuicao sum to totalAvaliacoes and
\* totalFeedbacks is at most totalAvaliacoes.
C15_StatisticsOneSnapshot ==
    \A w \in Workers :
        StatsDone(w) =>
            /\ SumOf(resp[w].statistics.distribuicao)
                    = resp[w].statistics.totalAvaliacoes
            /\ resp[w].statistics.totalFeedbacks
                    <= resp[w].statistics.totalAvaliacoes

ReadDone(w) == op[w] \in {"check", "list", "stats"} /\ pc[w] = "done"

\* C16: when check-vote, the list or the statistics have answered, with 200
\* or with 500, avaliacoes, controle_votacao and logs_sistema are as they
\* were when the request arrived.
C16_ReadsChangeNothing ==
    \A w \in Workers :
        ReadDone(w) =>
            /\ avaliacoes = pre[w].av
            /\ controle_votacao = pre[w].cv
            /\ logs_sistema = pre[w].lg

\* A read endpoint has answered after a failing read, over non-empty tables.
C16_Witness ==
    \E w \in Workers :
        /\ ReadDone(w)
        /\ avaliacoes # EmptyTable /\ controle_votacao # EmptyTable
        /\ logs_sistema # <<>>
        /\ \/ op[w] = "stats" /\ resp[w].status = 500
           \/ op[w] = "list" /\ resp[w].status = 500
           \/ op[w] = "check" /\ "has_voted_today" \in errs[w]

\* C17: when a request has been answered, the log entries stored on its
\* arrival are still there, in their order and unchanged; an accepted
\* submission and a successful reset whose log write succeeded have appended
\* exactly one entry, of their action and of the server time; a submission
\* answered 400, 409 or 500 has appended none.
C17_LogAppendOnly ==
    \A w \in Workers :
        pc[w] = "done" =>
            /\ Len(logs_sistema) >= Len(pre[w].lg)
            /\ SubSeq(logs_sistema, 1, Len(pre[w].lg)) = pre[w].lg
            /\ (/\ op[w] \in {"submit", "reset"} /\ resp[w].status = 200
                /\ "log_action" \notin errs[w])
                => /\ Len(logs_sistema) = Len(pre[w].lg) + 1
                   /\ logs_sistema[Len(logs_sistema)].acao
                        = (IF op[w] = "submit" THEN "AVALIACAO_ENVIADA"
                           ELSE "TIMER_RESETADO")
                   /\ logs_sistema[Len(logs_sistema)].timestamp
                        = IsoFormat(get_brazil_time(pre[w].t))
            /\ (op[w] = "submit" /\ resp[w].status \in {400, 409, 500})
                => logs_sistema = pre[w].lg

\* A submission was answered 409 after an accepted one, and the log holds
\* the entry of the accepted one only.
C17_Witness ==
    \E w \in Workers :
        /\ SubmitDone(w) /\ resp[w].status = 409
        /\ Len(logs_sistema) = 1
        /\ logs_sistema[1].acao = "AVALIACAO_ENVIADA"
        /\ logs_sistema = pre[w].lg

\* C18: in every state, every row of controle_votacao (one per device: the
\* table is keyed by dispositivo_id) is backed by a row of avaliacoes of that
\* device whose timestamp is the ultimo_voto of the ledger row.
C18_LedgerBackedByHistory ==
    \A d \in DOMAIN controle_votacao :
        \E i \in DOMAIN avaliacoes :
            /\ avaliacoes[i].dispositivo_id = d
            /\ avaliacoes[i].timestamp = controle_votacao[d].ultimo_voto

\* A device has two stored evaluations with different timestamps and a
\* ledger row, while a reset is being served.
C18_Witness ==
    \E i, j \in DOMAIN avaliacoes :
        /\ avaliacoes[i].dispositivo_id = avaliacoes[j].dispositivo_id
        /\ avaliacoes[i].timestamp # avaliacoes[j].timestamp
        /\ avaliacoes[i].dispositivo_id \in DOMAIN controle_votacao
        /\ \E w \in Workers : op[w] = "reset" /\ pc[w] = "commit"

====
